---- MODULE Spec2Model ----
(***************************************************************************)
(* The image pre-processing endpoints of backend/src/api/endpoints/        *)
(* preprocessing.py as a state machine: a request is received, its upload  *)
(* is decoded by open_img, the endpoint's handler body runs its technique  *)
(* dispatch and its OpenCV calls, encode_img encodes the result, and the   *)
(* handler returns a StreamingResponse; an exception ends the request.     *)
(*                                                                         *)
(* A raster is modelled by its shape and by the grey level of its pixels   *)
(* (uploads are uniform images: every sample of every channel is px).      *)
(* OpenCV calls whose arithmetic no property reads (the blurs, min-max     *)
(* normalisation, histogram equalisation, CLAHE) are kept as uninterpreted *)
(* tags in the field filt; cv2.threshold, cv2.resize, cv2.cvtColor to grey *)
(* and numpy slicing are computed.  sigma_color, sigma_space, clip_limit   *)
(* and tile_grid_size stay at their defaults and are not state.            *)
(***************************************************************************)
EXTENDS Integers, Sequences, FiniteSets, TLC

\* ------------------------------------------------------------------ bounds
MaxDim == 3
MaxKernel == 5
MaxRequests == 2

\* ------------------------------------------------------- program constants
MaxVal == 255
MaxPixel == 255
DefaultKernelSize == 5
DefaultThreshold == 127

Requests == 1..MaxRequests

\* ------------------------------------------------------------- data model
Mat(shape, px, filt) == [shape |-> shape, px |-> px, filt |-> filt]

None == Mat(<<>>, 0, "None")

NoBuf == [fmt |-> "", img |-> None, pos |-> 0]

NoResponse == [status |-> 0, detail |-> "", media_type |-> "", body |-> NoBuf]

NoUpload == [kind |-> "", w |-> 0, h |-> 0, ch |-> 0, px |-> 0]

Blob(kind) == [kind |-> kind, w |-> 0, h |-> 0, ch |-> 0, px |-> 0]

ImageFile(w, h, ch, px) == [kind |-> "image", w |-> w, h |-> h, ch |-> ch, px |-> px]

Params(technique, width, height, kernel_size, threshold) ==
    [technique |-> technique, width |-> width, height |-> height,
     kernel_size |-> kernel_size, threshold |-> threshold]

NoParams == Params("", 0, 0, 0, 0)

ResizeParams(width, height) == Params("", width, height, 0, 0)

NoiseReductionTechniques == {"gaussian_blur", "median_blur", "bilateral_filter"}

NoiseReductionParams(technique, kernel_size) == Params(technique, 0, 0, kernel_size, 0)

NormalizationTechniques == {"rescaling", "histogram_equalization"}

NormalizationParams(technique) == Params(technique, 0, 0, 0, 0)

BinarizationTechniques == {"binary", "binary_inv", "trunc", "tozero", "tozero_inv"}

BinarizationParams(technique, threshold) == Params(technique, 0, 0, 0, threshold)

ContrastTechniques == {"clahe"}

ContrastParams(technique) == Params(technique, 0, 0, 0, 0)

Settings ==
    [app_name |-> "Image Pre-processing Visualizer",
     all_cors_origins |-> <<"http://localhost:5173", "http://localhost:3000",
                            "http://127.0.0.1:5173", "http://frontend.docker.localhost">>]

\* A library call as the handler issued it: its name and its integer arguments.
LibCall(fn, args) == [fn |-> fn, args |-> args]

\* The result of running a piece of handler code: a value, or an exception.
\* kind is "ok", "http" (an HTTPException the handler raised) or "crash" (any
\* other exception, which the framework answers with status 500).
Returned(val, calls, stages, branch) ==
    [kind |-> "ok", status |-> 200, detail |-> "", val |-> val,
     calls |-> calls, stages |-> stages, branch |-> branch]

HTTPException(status, detail, calls, stages, branch) ==
    [kind |-> "http", status |-> status, detail |-> detail, val |-> None,
     calls |-> calls, stages |-> stages, branch |-> branch]

Unhandled(exc, calls, stages, branch) ==
    [kind |-> "crash", status |-> 500, detail |-> exc, val |-> None,
     calls |-> calls, stages |-> stages, branch |-> branch]

\* ------------------------------------------------- the libraries' behaviour
Min(a, b) == IF a < b THEN a ELSE b

Max(a, b) == IF a > b THEN a ELSE b

\* C++ remainder truncates toward zero; Python's % (TLA+'s %) floors.
CRem(a, b) == IF a >= 0 THEN a % b ELSE -((-a) % b)

CvOk(val) == [ok |-> TRUE, val |-> val]

CvError == [ok |-> FALSE, val |-> None]

\* cv2.imdecode(buf, flags): an empty buffer fails the library's assertion
\* !buf.empty() (cv2.error); bytes no codec recognises give None; IMREAD_COLOR
\* always yields a 3-channel BGR raster, IMREAD_UNCHANGED keeps the file's
\* channels (a single-channel file gives a 2-dimensional array).
cv2_imdecode(buf, flags) ==
    IF buf.kind = "empty" THEN CvError
    ELSE IF buf.kind # "image" THEN CvOk(None)
    ELSE IF flags = "IMREAD_COLOR" THEN CvOk(Mat(<<buf.h, buf.w, 3>>, buf.px, "raw"))
    ELSE IF buf.ch = 1 THEN CvOk(Mat(<<buf.h, buf.w>>, buf.px, "raw"))
    ELSE CvOk(Mat(<<buf.h, buf.w, buf.ch>>, buf.px, "raw"))

\* cv2.imencode(".png", img): fails on None and on an empty raster.
cv2_imencode(img) ==
    IF img = None \/ Len(img.shape) < 2 THEN CvError
    ELSE IF img.shape[1] <= 0 \/ img.shape[2] <= 0 THEN CvError
    ELSE CvOk(img)

\* cv2.resize(src, dsize): dsize is (width, height); the result has dsize[2]
\* rows and dsize[1] columns and the channels of src.  A constant image
\* interpolates to the same constant.
cv2_resize(src, dsize) ==
    IF dsize[1] > 0 /\ dsize[2] > 0
    THEN CvOk(Mat(<<dsize[2], dsize[1]>> \o SubSeq(src.shape, 3, Len(src.shape)),
                  src.px, src.filt))
    ELSE CvError

\* cv2.cvtColor(src, COLOR_BGR2GRAY): needs 3 or 4 channels; equal B, G, R
\* samples give that same grey level.
cv2_cvtColor_BGR2GRAY(src) ==
    IF Len(src.shape) = 3 /\ src.shape[3] \in {3, 4}
    THEN CvOk(Mat(<<src.shape[1], src.shape[2]>>, src.px, src.filt))
    ELSE CvError

\* numpy basic slicing a[lo:hi] over an axis of length n.
NpSliceLen(lo, hi, n) ==
    LET clamp(i) == IF i < 0 THEN Max(i + n, 0) ELSE Min(i, n)
    IN Max(clamp(hi) - clamp(lo), 0)

Saturate(x) == Max(0, Min(x, MaxPixel))

\* cv2.threshold on one 8-bit sample v.
ThresholdPixel(v, thresh, maxval, type) ==
    IF type = "THRESH_BINARY" THEN (IF v > thresh THEN Saturate(maxval) ELSE 0)
    ELSE IF type = "THRESH_BINARY_INV" THEN (IF v > thresh THEN 0 ELSE Saturate(maxval))
    ELSE IF type = "THRESH_TRUNC" THEN (IF v > thresh THEN Saturate(thresh) ELSE v)
    ELSE IF type = "THRESH_TOZERO" THEN (IF v > thresh THEN v ELSE 0)
    ELSE (IF v > thresh THEN 0 ELSE v)

cv2_threshold(src, thresh, maxval, type) ==
    CvOk(Mat(src.shape, ThresholdPixel(src.px, thresh, maxval, type), src.filt))

\* cv2.GaussianBlur(src, ksize, 0): with sigma 0 the kernel size must be
\* positive and odd.
cv2_GaussianBlur(src, ksize) ==
    IF ksize[1] > 0 /\ ksize[1] % 2 = 1 /\ ksize[2] > 0 /\ ksize[2] % 2 = 1
    THEN CvOk(Mat(src.shape, src.px, "GaussianBlur"))
    ELSE CvError

\* cv2.medianBlur(src, ksize): asserts ksize % 2 == 1 with C++ remainder, so a
\* negative odd size fails too; ksize 1 copies.
cv2_medianBlur(src, ksize) ==
    IF CRem(ksize, 2) = 1 THEN CvOk(Mat(src.shape, src.px, "medianBlur")) ELSE CvError

\* cv2.bilateralFilter(src, d, sigmaColor, sigmaSpace): a non-positive d is
\* derived from sigmaSpace; 8-bit images of 1 or 3 channels only.
cv2_bilateralFilter(src, d) ==
    IF Len(src.shape) = 2 \/ src.shape[3] \in {1, 3}
    THEN CvOk(Mat(src.shape, src.px, "bilateralFilter"))
    ELSE CvError

\* --------------------------------------------------------- handler bodies
\* Each body is the handler's code after `img = await open_img(...)` and up
\* to, not including, encode_img: the value left in the result variable, or
\* the exception raised, with the library calls issued and the stages run.

\* Faulty variant: decode with the file's own channel count.
ImreadUnchanged == "IMREAD_UNCHANGED"

ImreadFlag == "IMREAD_COLOR"

\* open_img: read, decode, reject None.
open_img(upload) ==
    LET decoded_img == cv2_imdecode(upload, ImreadFlag)
        calls == <<LibCall("imdecode", <<>>)>>
    IN IF ~decoded_img.ok THEN Unhandled("cv2.error", calls, <<"decode">>, "")
       ELSE IF decoded_img.val = None
            THEN HTTPException(400, "Invalid image file", calls, <<"decode">>, "")
       ELSE Returned(decoded_img.val, calls, <<"decode">>, "")

\* encode_img: imencode to PNG, wrap in BytesIO, seek(0).
encode_img(img) ==
    LET encoded_img == cv2_imencode(img)
        calls == <<LibCall("imencode", <<>>)>>
    IN IF ~encoded_img.ok THEN Unhandled("cv2.error", calls, <<"encode">>, "")
       ELSE Returned(encoded_img.val, calls, <<"encode">>, "")

\* Faulty variant: height and width passed in numpy order.
ResizeDsizeSwapped(params) == <<params.height, params.width>>

ResizeDsize(params) == <<params.width, params.height>>

resize_image(img, params) ==
    LET dsize == ResizeDsize(params)
        resized_img == cv2_resize(img, dsize)
        calls == <<LibCall("resize", dsize)>>
    IN IF resized_img.ok THEN Returned(resized_img.val, calls, <<"transform">>, "")
       ELSE Unhandled("cv2.error", calls, <<"transform">>, "")

\* Faulty variant: the far edges rounded up instead of down.
CropBoxRoundUp(width, height) ==
    LET size == Min(width, height)
    IN [size |-> size,
        left |-> (width - size) \div 2,
        top |-> (height - size) \div 2,
        right |-> (width + size + 1) \div 2,
        bottom |-> (height + size + 1) \div 2]

\* The crop box of crop_image for an image of the given width and height.
CropBox(width, height) ==
    LET size == Min(width, height)
    IN [size |-> size,
        left |-> (width - size) \div 2,
        top |-> (height - size) \div 2,
        right |-> (width + size) \div 2,
        bottom |-> (height + size) \div 2]

crop_image(img, params) ==
    IF Len(img.shape) # 3 THEN Unhandled("ValueError", <<>>, <<"transform">>, "")
    ELSE LET height == img.shape[1]
             width == img.shape[2]
             box == CropBox(width, height)
             cropped_img == Mat(<<NpSliceLen(box.top, box.bottom, height),
                                  NpSliceLen(box.left, box.right, width),
                                  img.shape[3]>>, img.px, img.filt)
             calls == <<LibCall("slice", <<box.top, box.bottom, box.left, box.right>>)>>
         IN Returned(cropped_img, calls, <<"transform">>, "")

grayscale_image(img, params) ==
    LET grayscale_img == cv2_cvtColor_BGR2GRAY(img)
        calls == <<LibCall("cvtColor", <<>>)>>
    IN IF grayscale_img.ok THEN Returned(grayscale_img.val, calls, <<"transform">>, "")
       ELSE Unhandled("cv2.error", calls, <<"transform">>, "")

\* Faulty variant: the parity test inverted.
MedianKernelRejectedOdd(kernel_size) == kernel_size % 2 = 1

\* The test of line 221 that rejects a median kernel size.
MedianKernelRejected(kernel_size) == kernel_size % 2 = 0

\* Faulty variant: the test for an unset result left out.
ResultUnsetIgnored(processed_img) == FALSE

\* The test `if processed_img is None` that follows each technique dispatch.
ResultUnset(processed_img) == processed_img = None

\* The branch of noise_reduct_image's if/elif chain a technique selects.
NoiseBranch(technique) ==
    IF technique = "gaussian_blur" THEN "gaussian_blur"
    ELSE IF technique = "median_blur" THEN "median_blur"
    ELSE IF technique = "bilateral_filter" THEN "bilateral_filter"
    ELSE "none"

\* The lines after a dispatch: a result still None raises the handler's
\* "Invalid ... technique" error (logged as a validation that rejected);
\* anything else goes on to encode_img.
CheckResult(dispatched, detail) ==
    IF dispatched.kind = "ok" /\ ResultUnset(dispatched.val)
    THEN HTTPException(400, detail, dispatched.calls,
                       dispatched.stages \o <<"validate">>, dispatched.branch)
    ELSE dispatched

\* One library call inside a dispatch branch: its result, or cv2.error.
Transform(r, call, before, branch) ==
    IF r.ok THEN Returned(r.val, <<call>>, before \o <<"transform">>, branch)
    ELSE Unhandled("cv2.error", <<call>>, before \o <<"transform">>, branch)

NoiseDispatch(img, params) ==
    LET k == params.kernel_size
        branch == NoiseBranch(params.technique)
    IN IF branch = "gaussian_blur"
       THEN Transform(cv2_GaussianBlur(img, <<k, k>>), LibCall("GaussianBlur", <<k, k>>),
                      <<>>, "")
       ELSE IF branch = "median_blur"
       THEN IF MedianKernelRejected(k)
            THEN HTTPException(400, "Kernel size for median blur must be an odd number",
                               <<>>, <<"validate">>, "")
            ELSE Transform(cv2_medianBlur(img, k), LibCall("medianBlur", <<k>>),
                           <<"validate">>, "")
       ELSE IF branch = "bilateral_filter"
       THEN Transform(cv2_bilateralFilter(img, k), LibCall("bilateralFilter", <<k>>),
                      <<>>, "")
       ELSE Returned(None, <<>>, <<>>, "")

noise_reduct_image(img, params) ==
    CheckResult(NoiseDispatch(img, params), "Invalid noise reduction technique")

\* len(img.shape) == 3 selects the colour branch of normalization and contrast.
ShapeBranch(img) == IF Len(img.shape) = 3 THEN "color" ELSE "gray"

\* cvtColor to LAB, split, filter the L channel, merge, cvtColor back.
OnLuminance(img, filt) == CvOk(Mat(img.shape, img.px, filt))

\* The filter applied to the array itself (the grey branch).
Direct(img, filt) ==
    IF Len(img.shape) = 2 THEN CvOk(Mat(img.shape, img.px, filt)) ELSE CvError

NormalizeDispatch(img, params) ==
    LET branch == ShapeBranch(img)
    IN IF params.technique = "rescaling"
       THEN IF branch = "color"
            THEN Transform(OnLuminance(img, "normalize(L)"), LibCall("normalize", <<3>>),
                           <<>>, branch)
            ELSE Transform(Direct(img, "normalize"), LibCall("normalize", <<1>>),
                           <<>>, branch)
       ELSE IF params.technique = "histogram_equalization"
       THEN IF branch = "color"
            THEN Transform(OnLuminance(img, "equalizeHist(L)"),
                           LibCall("equalizeHist", <<3>>), <<>>, branch)
            ELSE Transform(Direct(img, "equalizeHist"), LibCall("equalizeHist", <<1>>),
                           <<>>, branch)
       ELSE Returned(None, <<>>, <<>>, "")

normalize_image(img, params) ==
    CheckResult(NormalizeDispatch(img, params), "Invalid normalization technique")

\* Faulty variant: the two binary rules swapped in the map.
technique_map_swapped(technique) ==
    IF technique = "binary" THEN "THRESH_BINARY_INV"
    ELSE IF technique = "binary_inv" THEN "THRESH_BINARY"
    ELSE IF technique = "trunc" THEN "THRESH_TRUNC"
    ELSE IF technique = "tozero" THEN "THRESH_TOZERO"
    ELSE IF technique = "tozero_inv" THEN "THRESH_TOZERO_INV"
    ELSE "KeyError"

\* technique_map of binarize_image; a key outside the map raises KeyError.
technique_map(technique) ==
    IF technique = "binary" THEN "THRESH_BINARY"
    ELSE IF technique = "binary_inv" THEN "THRESH_BINARY_INV"
    ELSE IF technique = "trunc" THEN "THRESH_TRUNC"
    ELSE IF technique = "tozero" THEN "THRESH_TOZERO"
    ELSE IF technique = "tozero_inv" THEN "THRESH_TOZERO_INV"
    ELSE "KeyError"

binarize_image(img, params) ==
    LET gray_img == cv2_cvtColor_BGR2GRAY(img)
        gray_call == LibCall("cvtColor", <<>>)
        type == technique_map(params.technique)
    IN IF ~gray_img.ok THEN Unhandled("cv2.error", <<gray_call>>, <<"transform">>, "")
       ELSE IF type = "KeyError"
            THEN Unhandled("KeyError", <<gray_call>>, <<"transform">>, "")
       ELSE LET processed_img == cv2_threshold(gray_img.val, params.threshold, MaxVal, type)
            IN Returned(processed_img.val,
                        <<gray_call, LibCall("threshold", <<params.threshold>>)>>,
                        <<"transform">>, "")

ContrastDispatch(img, params) ==
    LET branch == ShapeBranch(img)
    IN IF params.technique = "clahe"
       THEN IF branch = "color"
            THEN Transform(OnLuminance(img, "CLAHE(L)"), LibCall("CLAHE", <<3>>),
                           <<>>, branch)
            ELSE Transform(Direct(img, "CLAHE"), LibCall("CLAHE", <<1>>), <<>>, branch)
       ELSE Returned(None, <<>>, <<>>, "")

enhance_contrast_image(img, params) ==
    CheckResult(ContrastDispatch(img, params), "Invalid contrast enhancement technique")

\* ------------------------------------------------------------------ state
VARIABLES
    endpoint,        \* per request: the route it was posted to ("" before it arrives)
    upload,          \* per request: the uploaded file
    params,          \* per request: the parameter object
    pc,              \* per request: idle, open_img, handler, encode, respond, done
    img,             \* per request: the handler's local img
    processed_img,   \* per request: the handler's local result
    buf,             \* per request: the BytesIO encode_img returned
    response,        \* per request: what the client received
    trace,           \* per request: the stages run, in order (history)
    calls,           \* per request: the library calls issued, in order (history)
    branch,          \* per request: colour or grey branch taken by the dispatch (history)
    settings         \* core.config.settings, the process-wide configuration

vars == <<endpoint, upload, params, pc, img, processed_img, buf, response,
          trace, calls, branch, settings>>

Endpoints == {"resize", "crop", "grayscale", "noise_reduction", "normalization",
              "binarization", "contrast"}

Request(e, u, p) == [endpoint |-> e, upload |-> u, params |-> p]

Init ==
    /\ endpoint = [r \in Requests |-> ""]
    /\ upload = [r \in Requests |-> NoUpload]
    /\ params = [r \in Requests |-> NoParams]
    /\ pc = [r \in Requests |-> "idle"]
    /\ img = [r \in Requests |-> None]
    /\ processed_img = [r \in Requests |-> None]
    /\ buf = [r \in Requests |-> NoBuf]
    /\ response = [r \in Requests |-> NoResponse]
    /\ trace = [r \in Requests |-> <<>>]
    /\ calls = [r \in Requests |-> <<>>]
    /\ branch = [r \in Requests |-> ""]
    /\ settings = Settings

\* The framework hands a request to its handler.
Receive(r, inputs) ==
    /\ pc[r] = "idle"
    /\ \E in \in inputs :
        /\ endpoint' = [endpoint EXCEPT ![r] = in.endpoint]
        /\ upload' = [upload EXCEPT ![r] = in.upload]
        /\ params' = [params EXCEPT ![r] = in.params]
    /\ pc' = [pc EXCEPT ![r] = "open_img"]
    /\ UNCHANGED <<img, processed_img, buf, response, trace, calls, branch, settings>>

\* An exception leaves the handler: the client gets the error, nothing else runs.
Abort(r, o) ==
    /\ response' = [response EXCEPT ![r] =
                       [status |-> o.status, detail |-> o.detail,
                        media_type |-> "application/json", body |-> NoBuf]]
    /\ trace' = [trace EXCEPT ![r] = @ \o o.stages \o <<"error">>]
    /\ calls' = [calls EXCEPT ![r] = @ \o o.calls]
    /\ pc' = [pc EXCEPT ![r] = "done"]

\* Faulty variant: the decoded image kept in one module-level variable.
OpenImgShared(r) ==
    /\ pc[r] = "open_img"
    /\ LET o == open_img(upload[r])
       IN IF o.kind = "ok"
          THEN /\ img' = [q \in Requests |-> o.val]
               /\ trace' = [trace EXCEPT ![r] = @ \o o.stages]
               /\ calls' = [calls EXCEPT ![r] = @ \o o.calls]
               /\ pc' = [pc EXCEPT ![r] = "handler"]
               /\ UNCHANGED response
          ELSE /\ Abort(r, o)
               /\ UNCHANGED img
    /\ UNCHANGED <<endpoint, upload, params, processed_img, buf, branch, settings>>

\* img = await open_img(...)
OpenImg(r) ==
    /\ pc[r] = "open_img"
    /\ LET o == open_img(upload[r])
       IN IF o.kind = "ok"
          THEN /\ img' = [img EXCEPT ![r] = o.val]
               /\ trace' = [trace EXCEPT ![r] = @ \o o.stages]
               /\ calls' = [calls EXCEPT ![r] = @ \o o.calls]
               /\ pc' = [pc EXCEPT ![r] = "handler"]
               /\ UNCHANGED response
          ELSE /\ Abort(r, o)
               /\ UNCHANGED img
    /\ UNCHANGED <<endpoint, upload, params, processed_img, buf, branch, settings>>

\* The handler's code between open_img and encode_img, with outcome o.
Run(r, o) ==
    /\ pc[r] = "handler"
    /\ branch' = [branch EXCEPT ![r] = o.branch]
    /\ IF o.kind = "ok"
       THEN /\ processed_img' = [processed_img EXCEPT ![r] = o.val]
            /\ trace' = [trace EXCEPT ![r] = @ \o o.stages]
            /\ calls' = [calls EXCEPT ![r] = @ \o o.calls]
            /\ pc' = [pc EXCEPT ![r] = "encode"]
            /\ UNCHANGED response
       ELSE /\ Abort(r, o)
            /\ UNCHANGED processed_img
    /\ UNCHANGED <<endpoint, upload, params, img, buf, settings>>

ResizeImage(r) == endpoint[r] = "resize" /\ Run(r, resize_image(img[r], params[r]))

CropImage(r) == endpoint[r] = "crop" /\ Run(r, crop_image(img[r], params[r]))

GrayscaleImage(r) == endpoint[r] = "grayscale" /\ Run(r, grayscale_image(img[r], params[r]))

NoiseReductImage(r) ==
    endpoint[r] = "noise_reduction" /\ Run(r, noise_reduct_image(img[r], params[r]))

NormalizeImage(r) ==
    endpoint[r] = "normalization" /\ Run(r, normalize_image(img[r], params[r]))

BinarizeImage(r) ==
    endpoint[r] = "binarization" /\ Run(r, binarize_image(img[r], params[r]))

EnhanceContrastImage(r) ==
    endpoint[r] = "contrast" /\ Run(r, enhance_contrast_image(img[r], params[r]))

\* buf = encode_img(result)
EncodeImg(r) ==
    /\ pc[r] = "encode"
    /\ LET o == encode_img(processed_img[r])
       IN IF o.kind = "ok"
          THEN /\ buf' = [buf EXCEPT ![r] = [fmt |-> "png", img |-> o.val, pos |-> 0]]
               /\ trace' = [trace EXCEPT ![r] = @ \o o.stages]
               /\ calls' = [calls EXCEPT ![r] = @ \o o.calls]
               /\ pc' = [pc EXCEPT ![r] = "respond"]
               /\ UNCHANGED response
          ELSE /\ Abort(r, o)
               /\ UNCHANGED buf
    /\ UNCHANGED <<endpoint, upload, params, img, processed_img, branch, settings>>

\* return StreamingResponse(buf, media_type="image/png")
Respond(r) ==
    /\ pc[r] = "respond"
    /\ response' = [response EXCEPT ![r] =
                       [status |-> 200, detail |-> "", media_type |-> "image/png",
                        body |-> buf[r]]]
    /\ trace' = [trace EXCEPT ![r] = @ \o <<"respond">>]
    /\ pc' = [pc EXCEPT ![r] = "done"]
    /\ UNCHANGED <<endpoint, upload, params, img, processed_img, buf, calls, branch,
                   settings>>

\* ----------------------------------------------------------------- inputs
FileChannels == {1, 3, 4}

Levels == {50, 200}

Dims == 1..MaxDim

Uploads ==
    {Blob("empty"), Blob("corrupt")}
        \cup {ImageFile(w, h, ch, px) : w \in Dims, h \in Dims, ch \in FileChannels,
                                        px \in Levels}

Sizes == (-1)..MaxDim

KernelSizes == (-MaxKernel)..MaxKernel

Thresholds == {-1, 0, 100, DefaultThreshold, MaxPixel, MaxPixel + 1}

\* A technique string outside the enum, as an unvalidated params object carries.
Unknown == "unknown"

Inputs ==
    {Request("resize", u, ResizeParams(w, h)) : u \in Uploads, w \in Sizes, h \in Sizes}
    \cup {Request("crop", u, NoParams) : u \in Uploads}
    \cup {Request("grayscale", u, NoParams) : u \in Uploads}
    \cup {Request("noise_reduction", u, NoiseReductionParams(t, k)) :
            u \in Uploads, t \in NoiseReductionTechniques \cup {Unknown}, k \in KernelSizes}
    \cup {Request("normalization", u, NormalizationParams(t)) :
            u \in Uploads, t \in NormalizationTechniques \cup {Unknown}}
    \cup {Request("binarization", u, BinarizationParams(t, th)) :
            u \in Uploads, t \in BinarizationTechniques \cup {Unknown}, th \in Thresholds}
    \cup {Request("contrast", u, ContrastParams(t)) :
            u \in Uploads, t \in ContrastTechniques \cup {Unknown}}

\* --------------------------------------------------------- specifications
\* One request, every endpoint, the full input sets.
Next ==
    \/ Receive(1, Inputs)
    \/ OpenImg(1)
    \/ ResizeImage(1)
    \/ CropImage(1)
    \/ GrayscaleImage(1)
    \/ NoiseReductImage(1)
    \/ NormalizeImage(1)
    \/ BinarizeImage(1)
    \/ EnhanceContrastImage(1)
    \/ EncodeImg(1)
    \/ Respond(1)

Spec == Init /\ [][Next]_vars

\* Binarization alone, over every threshold and every grey level of 8 bits.
PixelValues == 0..MaxPixel

BinInputs ==
    {Request("binarization", ImageFile(1, 1, 3, v), BinarizationParams(t, th)) :
        t \in BinarizationTechniques, th \in PixelValues, v \in PixelValues}

NextBin ==
    \/ Receive(1, BinInputs)
    \/ OpenImg(1)
    \/ BinarizeImage(1)
    \/ EncodeImg(1)
    \/ Respond(1)

SpecBin == Init /\ [][NextBin]_vars

\* Concurrent requests: every endpoint, a few uploads, any interleaving of the
\* requests' steps.
ConcUploads == {Blob("corrupt"), ImageFile(2, 1, 3, 50), ImageFile(1, 2, 1, 200)}

ConcInputs ==
    {Request("resize", u, ResizeParams(1, 2)) : u \in ConcUploads}
    \cup {Request("crop", u, NoParams) : u \in ConcUploads}
    \cup {Request("grayscale", u, NoParams) : u \in ConcUploads}
    \cup {Request("noise_reduction", u, NoiseReductionParams("median_blur", DefaultKernelSize)) :
            u \in ConcUploads}
    \cup {Request("normalization", u, NormalizationParams("rescaling")) : u \in ConcUploads}
    \cup {Request("binarization", u, BinarizationParams("binary", DefaultThreshold)) :
            u \in ConcUploads}
    \cup {Request("contrast", u, ContrastParams("clahe")) : u \in ConcUploads}

NextConc ==
    \E r \in Requests :
        \/ Receive(r, ConcInputs)
        \/ OpenImg(r)
        \/ ResizeImage(r)
        \/ CropImage(r)
        \/ GrayscaleImage(r)
        \/ NoiseReductImage(r)
        \/ NormalizeImage(r)
        \/ BinarizeImage(r)
        \/ EnhanceContrastImage(r)
        \/ EncodeImg(r)
        \/ Respond(r)

SpecConc == Init /\ [][NextConc]_vars

\* ------------------------------------------------------------- properties
Decodable(r) == upload[r].kind = "image"

\* The handler body of request r has returned normally.
Transformed(r) == pc[r] \in {"encode", "respond"} \/ (pc[r] = "done" /\ response[r].status = 200)

Finished(r) == pc[r] = "done"

CallsOf(r, fn) == {i \in 1..Len(calls[r]) : calls[r][i].fn = fn}

Ran(r, stage) == \E i \in 1..Len(trace[r]) : trace[r][i] = stage

NoOutput(r) == response[r].body = NoBuf /\ buf[r] = NoBuf

\* C1: the centre crop of a w x h image takes the box left = (w-size)//2,
\* top = (h-size)//2 with size = min(w, h); the box is size x size, lies inside
\* the image, and the cropped raster is size x size.
CropIsCentredSquare ==
    \A r \in Requests :
        (endpoint[r] = "crop" /\ Decodable(r) /\ pc[r] \in {"encode", "respond", "done"}) =>
            LET w == upload[r].w
                h == upload[r].h
                size == IF w < h THEN w ELSE h
                sl == CallsOf(r, "slice")
            IN /\ Cardinality(sl) = 1
               /\ \A i \in sl :
                    LET top == calls[r][i].args[1]
                        bottom == calls[r][i].args[2]
                        left == calls[r][i].args[3]
                        right == calls[r][i].args[4]
                    IN /\ left = (w - size) \div 2
                       /\ top = (h - size) \div 2
                       /\ right - left = size
                       /\ bottom - top = size
                       /\ 0 <= left /\ right <= w
                       /\ 0 <= top /\ bottom <= h
               /\ processed_img[r].shape = <<size, size, 3>>
               /\ (Finished(r) => /\ response[r].status = 200
                                  /\ response[r].body.img.shape = <<size, size, 3>>)

\* A 3 x 2 upload (odd difference w - size) was cropped to 2 x 2 and returned.
CropWitness ==
    \E r \in Requests :
        /\ endpoint[r] = "crop" /\ upload[r].kind = "image"
        /\ upload[r].w = 3 /\ upload[r].h = 2
        /\ Finished(r) /\ response[r].body.img.shape = <<2, 2, 3>>

KernelDetail == "Kernel size for median blur must be an odd number"

\* C2: a median-blur request with a decodable image and an even kernel_size
\* ends with the 400 kernel-size error without medianBlur being called; with
\* an odd kernel_size it is not rejected by that test and medianBlur is called
\* with that kernel_size.
MedianKernelParity ==
    \A r \in Requests :
        (/\ endpoint[r] = "noise_reduction" /\ params[r].technique = "median_blur"
         /\ Decodable(r) /\ pc[r] \in {"encode", "respond", "done"}) =>
            IF params[r].kernel_size % 2 = 0
            THEN /\ Finished(r)
                 /\ response[r].status = 400
                 /\ response[r].detail = KernelDetail
                 /\ CallsOf(r, "medianBlur") = {}
                 /\ NoOutput(r)
            ELSE /\ response[r].detail # KernelDetail
                 /\ \E i \in CallsOf(r, "medianBlur") :
                        calls[r][i].args = <<params[r].kernel_size>>

\* kernel_size 4 on a decodable image was rejected.
MedianKernelWitness ==
    \E r \in Requests :
        /\ endpoint[r] = "noise_reduction" /\ params[r].technique = "median_blur"
        /\ Decodable(r) /\ params[r].kernel_size = 4
        /\ Finished(r) /\ response[r].status = 400 /\ response[r].detail = KernelDetail

\* C3: an upload that cannot be decoded (corrupt or empty) ends the request,
\* on every endpoint, with the 400 "Invalid image file" error, no transform,
\* no encode and no output stream.
UndecodableIsInvalidImage ==
    \A r \in Requests :
        (endpoint[r] \in Endpoints /\ ~Decodable(r) /\ pc[r] # "open_img") =>
            /\ Finished(r)
            /\ response[r].status = 400
            /\ response[r].detail = "Invalid image file"
            /\ ~Ran(r, "transform") /\ ~Ran(r, "encode")
            /\ NoOutput(r)

\* The thresholding rules as the specification tabulates them.
Rule(technique, v, T) ==
    IF technique = "binary" THEN (IF v > T THEN 255 ELSE 0)
    ELSE IF technique = "binary_inv" THEN (IF v > T THEN 0 ELSE 255)
    ELSE IF technique = "trunc" THEN (IF v > T THEN T ELSE v)
    ELSE IF technique = "tozero" THEN (IF v > T THEN v ELSE 0)
    ELSE (IF v > T THEN 0 ELSE v)

\* C4: for every technique of the enum, threshold T in 0..255 and grey level v
\* in 0..255 the binarized pixel is the technique's own rule applied to v and T;
\* under binary it is 0 or 255 and under trunc it does not exceed T.
BinarizationFollowsRule ==
    \A r \in Requests :
        (/\ endpoint[r] = "binarization" /\ Decodable(r)
         /\ params[r].technique \in BinarizationTechniques
         /\ params[r].threshold \in 0..255
         /\ pc[r] \in {"encode", "respond", "done"}) =>
            LET T == params[r].threshold
                v == upload[r].px
            IN /\ processed_img[r].px = Rule(params[r].technique, v, T)
               /\ (params[r].technique = "binary" => processed_img[r].px \in {0, 255})
               /\ (params[r].technique = "trunc" => processed_img[r].px <= T)
               /\ (Finished(r) => /\ response[r].status = 200
                                  /\ response[r].body.img.px = processed_img[r].px)

\* Threshold 100 under binary turned grey level 200 into 255 in the response.
BinarizationWitness ==
    \E r \in Requests :
        /\ endpoint[r] = "binarization" /\ params[r].technique = "binary"
        /\ params[r].threshold = 100 /\ upload[r].px = 200
        /\ Finished(r) /\ response[r].body.img.px = 255

\* C5: the resize library call is only issued with width > 0 and height > 0,
\* and the threshold call only with 0 <= threshold <= 255.
TransformArgsValidated ==
    \A r \in Requests :
        /\ \A i \in CallsOf(r, "resize") :
                calls[r][i].args[1] > 0 /\ calls[r][i].args[2] > 0
        /\ \A i \in CallsOf(r, "threshold") :
                0 <= calls[r][i].args[1] /\ calls[r][i].args[1] <= 255

\* C6: for width > 0, height > 0 and any decodable upload, the resized raster
\* has height rows and width columns, whatever the source dimensions.
ResizeExactDims ==
    \A r \in Requests :
        (/\ endpoint[r] = "resize" /\ Decodable(r)
         /\ params[r].width > 0 /\ params[r].height > 0
         /\ pc[r] \in {"encode", "respond", "done"}) =>
            /\ processed_img[r].shape = <<params[r].height, params[r].width, 3>>
            /\ (Finished(r) =>
                    /\ response[r].status = 200
                    /\ response[r].body.img.shape = <<params[r].height, params[r].width, 3>>)

\* A 1-wide, 2-high upload was resized to width 3, height 1.
ResizeWitness ==
    \E r \in Requests :
        /\ endpoint[r] = "resize" /\ upload[r].kind = "image"
        /\ upload[r].w = 1 /\ upload[r].h = 2
        /\ params[r].width = 3 /\ params[r].height = 1
        /\ Finished(r) /\ response[r].body.img.shape = <<1, 3, 3>>

\* What one request gets when it is the only one the service handles: the
\* handler's code run from open_img to the response, as a function of the
\* request's endpoint, upload and parameters.
HandlerBody(e, image, p) ==
    IF e = "resize" THEN resize_image(image, p)
    ELSE IF e = "crop" THEN crop_image(image, p)
    ELSE IF e = "grayscale" THEN grayscale_image(image, p)
    ELSE IF e = "noise_reduction" THEN noise_reduct_image(image, p)
    ELSE IF e = "normalization" THEN normalize_image(image, p)
    ELSE IF e = "binarization" THEN binarize_image(image, p)
    ELSE enhance_contrast_image(image, p)

ErrorResponse(o) ==
    [status |-> o.status, detail |-> o.detail, media_type |-> "application/json",
     body |-> NoBuf]

Alone(e, u, p) ==
    LET d == open_img(u)
    IN IF d.kind # "ok" THEN ErrorResponse(d)
       ELSE LET o == HandlerBody(e, d.val, p)
            IN IF o.kind # "ok" THEN ErrorResponse(o)
               ELSE LET enc == encode_img(o.val)
                    IN IF enc.kind # "ok" THEN ErrorResponse(enc)
                       ELSE [status |-> 200, detail |-> "", media_type |-> "image/png",
                             body |-> [fmt |-> "png", img |-> enc.val, pos |-> 0]]

\* The per-request state of request q.
Local(q) == <<endpoint[q], upload[q], params[q], pc[q], img[q], processed_img[q],
              buf[q], response[q], trace[q], calls[q], branch[q]>>

\* C7: under any interleaving of concurrent requests, a finished request's
\* response is the one it gets when run alone, a function of its own upload and
\* parameters; a request in flight holds only what its own upload decodes to;
\* and the process-wide settings keep their start-up value.
RequestsIndependent ==
    /\ settings = Settings
    /\ \A r \in Requests :
        /\ (Finished(r) => response[r] = Alone(endpoint[r], upload[r], params[r]))
        /\ (pc[r] \in {"handler", "encode", "respond"} =>
                img[r] = open_img(upload[r]).val)
        /\ (pc[r] \in {"idle", "open_img"} => img[r] = None)

\* One request has its response while another, with a different upload, is
\* still between decode and encode.
IndependentWitness ==
    \E r \in Requests : \E q \in Requests :
        /\ r # q
        /\ Finished(r) /\ response[r].status = 200
        /\ pc[q] = "encode" /\ upload[q] # upload[r]
        /\ img[q] # response[r].body.img

Rank(stage) ==
    IF stage = "decode" THEN 1
    ELSE IF stage = "validate" THEN 2
    ELSE IF stage = "transform" THEN 3
    ELSE IF stage = "encode" THEN 4
    ELSE IF stage = "respond" THEN 5
    ELSE 6

Terminals(r) == {i \in 1..Len(trace[r]) : trace[r][i] \in {"respond", "error"}}

\* C8: the stages of a request run in the order decode, validate, transform,
\* encode, respond; a finished request has exactly one terminal outcome, which
\* is its last event; a failed request produced no output stream; and a
\* noise-reduction request with an undecodable upload and an even median
\* kernel_size ends with the InvalidImage error.
StagesInOrder ==
    \A r \in Requests :
        /\ \A i \in 1..Len(trace[r]) : \A j \in 1..Len(trace[r]) :
                i < j => Rank(trace[r][i]) < Rank(trace[r][j])
        /\ Cardinality(Terminals(r)) = (IF Finished(r) THEN 1 ELSE 0)
        /\ (Finished(r) => Terminals(r) = {Len(trace[r])})
        /\ (Finished(r) /\ Ran(r, "error") => response[r].status # 200 /\ NoOutput(r))
        /\ (Finished(r) /\ Ran(r, "respond") =>
                response[r].status = 200 /\ response[r].body = buf[r])
        /\ (/\ Finished(r) /\ endpoint[r] = "noise_reduction" /\ ~Decodable(r)
            /\ params[r].technique = "median_blur" /\ params[r].kernel_size % 2 = 0) =>
                response[r].status = 400 /\ response[r].detail = "Invalid image file"

Dispatching == {"noise_reduction", "normalization", "contrast"}

TechniquesOf(e) ==
    IF e = "noise_reduction" THEN NoiseReductionTechniques
    ELSE IF e = "normalization" THEN NormalizationTechniques
    ELSE ContrastTechniques

InvalidTechniqueDetail(e) ==
    IF e = "noise_reduction" THEN "Invalid noise reduction technique"
    ELSE IF e = "normalization" THEN "Invalid normalization technique"
    ELSE "Invalid contrast enhancement technique"

\* C9: in the noise-reduction, normalization and contrast handlers encode_img
\* is never reached or called with an unset result; a technique of the enum
\* never ends in the handler's "Invalid ... technique" error; and a technique
\* no branch matches ends with that 400 error and nothing encoded.
DispatchNeverEncodesNone ==
    \A r \in Requests :
        endpoint[r] \in Dispatching =>
            /\ (pc[r] \in {"encode", "respond"} => processed_img[r] # None)
            /\ (CallsOf(r, "imencode") # {} => processed_img[r] # None)
            /\ (Finished(r) /\ response[r].status = 200 => response[r].body.img # None)
            /\ (Finished(r) /\ Decodable(r) =>
                    IF params[r].technique \in TechniquesOf(endpoint[r])
                    THEN response[r].detail # InvalidTechniqueDetail(endpoint[r])
                    ELSE /\ response[r].status = 400
                         /\ response[r].detail = InvalidTechniqueDetail(endpoint[r])
                         /\ CallsOf(r, "imencode") = {}
                         /\ NoOutput(r))

\* A noise-reduction request with a technique outside the enum got the 400.
DispatchWitness ==
    \E r \in Requests :
        /\ endpoint[r] = "noise_reduction" /\ Decodable(r)
        /\ params[r].technique \notin NoiseReductionTechniques
        /\ Finished(r) /\ response[r].status = 400
        /\ response[r].detail = "Invalid noise reduction technique"

\* C10: every image open_img returned has three channels whatever the file's
\* channel count, so normalization and contrast take the colour branch and
\* never the grey one.
DecodedAlwaysColor ==
    \A r \in Requests :
        /\ (img[r] # None => Len(img[r].shape) = 3 /\ img[r].shape[3] = 3)
        /\ branch[r] # "gray"
        /\ (/\ endpoint[r] \in {"normalization", "contrast"}
            /\ params[r].technique \in TechniquesOf(endpoint[r])
            /\ pc[r] \in {"encode", "respond", "done"} /\ Decodable(r)) =>
                /\ branch[r] = "color"
                /\ \A i \in 1..Len(calls[r]) :
                        calls[r][i].fn \in {"normalize", "equalizeHist", "CLAHE"} =>
                            calls[r][i].args = <<3>>

\* A single-channel file went through normalization on the colour branch.
DecodedColorWitness ==
    \E r \in Requests :
        /\ endpoint[r] = "normalization" /\ Decodable(r) /\ upload[r].ch = 1
        /\ Finished(r) /\ response[r].status = 200 /\ branch[r] = "color"
        /\ response[r].body.img.shape = <<upload[r].h, upload[r].w, 3>>

====
